---- MODULE Spec2Model ----
(***************************************************************************)
(* Model of the document question-answering server                         *)
(* (src/document_qa_server.py, src/validation_agent.py).                   *)
(*                                                                         *)
(* The server runs on one asyncio event loop.  A coroutine runs without    *)
(* interruption from one "await" to the next; the only awaits are the      *)
(* calls to the external Embedder and Generator (asyncio.to_thread).  Each *)
(* action below is one such uninterrupted stretch of one request.          *)
(***************************************************************************)
EXTENDS Integers, Sequences, FiniteSets, TLC

(***************************************************************************)
(* Bounds of the model.                                                    *)
(***************************************************************************)
MaxStore == 2      \* chunks the store holds at most (stored and in flight)
MaxTopK == 3       \* top_k of a direct search_similar call is 0..MaxTopK
MaxLen == 7        \* characters of a document text handed to the chunker
MaxChunkSize == 5  \* DocumentChunker.chunk_size is 1..MaxChunkSize
MaxLoaded == 3     \* chunks the store of a server with load_document holds
MaxOverlap == 2    \* DocumentChunker.overlap is 0..MaxOverlap

Tasks == {"t1", "t2"}

\* in the server runs one task asks while the other changes the store
Askers == {"t1"}
Writers == Tasks \ Askers

VARIABLES
    chunks,        \* EmbeddingStore.chunks : sequence of DocumentChunk
    embeddings,    \* EmbeddingStore.embeddings : None or the matrix (rows)
    pc,            \* per task: where its coroutine stands
    loc,           \* per task: the local variables of its coroutine
    calls,         \* per task: external calls issued by the current operation
    enable_validation, \* DocumentQAServer(enable_validation): agent present
    reported_chunks,   \* history: sum of num_chunks of the load_document
                       \* responses with status success
    background         \* SimpleDocumentQA: the batches of the tasks made by
                       \* asyncio.create_task that wait for the Embedder

vars == <<chunks, embeddings, pc, loc, calls, enable_validation, reported_chunks, background>>

(***************************************************************************)
(* Values.                                                                 *)
(***************************************************************************)
\* embedding vectors the Embedder may return: similarities 1 and 0, equal
\* for chunks with the same vector
Vectors == {<<1, 0>>, <<0, 1>>}

\* DocumentChunk.embedding = None
NoEmbedding == <<>>

\* EmbeddingStore.embeddings = None
NoMatrix == [present |-> FALSE, rows |-> <<>>]

Matrix(rows) == [present |-> TRUE, rows |-> rows]

DocumentChunk(content, chunk_id, source_file) ==
    [content |-> content, chunk_id |-> chunk_id,
     source_file |-> source_file, embedding |-> NoEmbedding]

\* The batches handed to add_chunks: the chunk list of one document each.
\* "e.txt" is a document without any paragraph (no chunk).
SourceFiles == {"a.txt", "b.txt", "e.txt"}

Stem(f) == CASE f = "a.txt" -> "a" [] f = "b.txt" -> "b" [] OTHER -> "e"

BatchOf(f) ==
    CASE f = "a.txt" -> <<DocumentChunk("a0", <<Stem(f), 0>>, f)>>
      [] f = "b.txt" -> <<DocumentChunk("b0", <<Stem(f), 0>>, f),
                          DocumentChunk("b1", <<Stem(f), 1>>, f)>>
      [] OTHER -> <<>>

Queries == {"q"}

TopKs == 0..MaxTopK

(***************************************************************************)
(* cosine_similarity.  sklearn normalises both sides and multiplies; a     *)
(* zero vector stays zero and gives similarity 0.  A similarity is kept as *)
(* the exact fraction sign(d) * d^2 / (|q|^2 * |x|^2), which orders as the *)
(* cosine d / (|q| * |x|) does.                                            *)
(***************************************************************************)
Dot(a, b) == a[1] * b[1] + a[2] * b[2]

Cos(q, x) ==
    IF Dot(q, q) = 0 \/ Dot(x, x) = 0
    THEN [num |-> 0, den |-> 1]
    ELSE [num |-> (IF Dot(q, x) < 0 THEN -1 ELSE 1) * Dot(q, x) * Dot(q, x),
          den |-> Dot(q, q) * Dot(x, x)]

cosine_similarity(q, rows) == [i \in 1..Len(rows) |-> Cos(q, rows[i])]

ScoreLE(a, b) == a.num * b.den <= b.num * a.den
ScoreEQ(a, b) == a.num * b.den = b.num * a.den
ScoreLT(a, b) == a.num * b.den < b.num * a.den

(***************************************************************************)
(* np.argsort(similarities): some permutation of the indices that puts the *)
(* similarities in ascending order.  The default sort kind is not stable,  *)
(* so the order among equal similarities is any order.                     *)
(***************************************************************************)
Perms(n) == {p \in [1..n -> 1..n] : \A i, j \in 1..n : p[i] = p[j] => i = j}

IsArgsort(p, sims) ==
    \A i \in 1..(Len(sims) - 1) : ScoreLE(sims[p[i]], sims[p[i + 1]])

Argsorts(sims) == {p \in Perms(Len(sims)) : IsArgsort(p, sims)}

Min(a, b) == IF a <= b THEN a ELSE b

\* np.argsort(similarities)[::-1][:top_k], given the argsort result p
TopIndicesAscending(p, top_k) == [i \in 1..Min(top_k, Len(p)) |-> p[i]]

TopIndices(p, top_k) ==
    [i \in 1..Min(top_k, Len(p)) |-> p[Len(p) + 1 - i]]

(***************************************************************************)
(* ValidationAgent (src/validation_agent.py).                              *)
(*                                                                         *)
(* A JSON value carries its kind; numbers are kept in hundredths           *)
(* (0.29 is 29).  An object is a record of JSON values.                    *)
(***************************************************************************)
JBool(b) == [k |-> "bool", b |-> b, n |-> 0]
JNum(n) == [k |-> "num", b |-> FALSE, n |-> n]
JNull == [k |-> "null", b |-> FALSE, n |-> 0]
JStr == [k |-> "str", b |-> FALSE, n |-> 0]    \* a string that is no number

\* Python float(v) and bool(v) of a JSON value.  float raises on null
\* (TypeError) and on a string that is no number (ValueError); bool of a
\* non-empty string is True, of null False.
Float(v) == IF v.k = "bool" THEN (IF v.b THEN 100 ELSE 0) ELSE v.n
FloatRaises(v) == v.k \in {"null", "str"}
Bool(v) == IF v.k = "bool" THEN v.b ELSE IF v.k = "str" THEN TRUE ELSE v.n # 0

\* dict.get(key, default)
Get(obj, key, default) == IF key \in DOMAIN obj THEN obj[key] ELSE default

\* The text the Generator returns, after strip(): a sequence of tokens.
\* "prose" is any run of characters without braces, "body" is what stands
\* between the braces of the JSON object it carries in obj.
NoObj == [none |-> TRUE]
Tok(kind) == [t |-> kind, obj |-> NoObj]
BodyTok(obj) == [t |-> "body", obj |-> obj]
ObjectText(obj) == <<Tok("lbrace"), BodyTok(obj), Tok("rbrace")>>

\* a JSON list holding one object
ListText(obj) == <<Tok("lbracket")>> \o ObjectText(obj) \o <<Tok("rbracket")>>

\* a JSON document that is no object (a number, a string, a list):
\* json.loads accepts it, and .get on the value raises AttributeError
IsJsonScalar(text) ==
    \/ Len(text) = 1 /\ text[1].t = "scalar"
    \/ /\ Len(text) = 5
       /\ text[1].t = "lbracket" /\ text[5].t = "rbracket"
       /\ text[2].t = "lbrace" /\ text[3].t = "body" /\ text[4].t = "rbrace"

\* json.loads: <<"{", body, "}">> is the JSON document that is an object
IsJson(text) ==
    /\ Len(text) = 3
    /\ text[1].t = "lbrace" /\ text[2].t = "body" /\ text[3].t = "rbrace"

json_loads(text) == text[2].obj

\* str.find('{') and str.rfind('}'); 0 stands for -1
Find(text, kind) ==
    IF \E i \in 1..Len(text) : text[i].t = kind
    THEN CHOOSE i \in 1..Len(text) :
            /\ text[i].t = kind
            /\ \A j \in 1..(i - 1) : text[j].t # kind
    ELSE 0

RFind(text, kind) ==
    IF \E i \in 1..Len(text) : text[i].t = kind
    THEN CHOOSE i \in 1..Len(text) :
            /\ text[i].t = kind
            /\ \A j \in (i + 1)..Len(text) : text[j].t # kind
    ELSE 0

\* lines 141-153: the parsed object, or a fault
ParseDirectOnly(text) ==
    IF IsJson(text)
    THEN [ok |-> TRUE, obj |-> json_loads(text)]
    ELSE [ok |-> FALSE, obj |-> NoObj]

Parse(text) ==
    IF IsJson(text)
    THEN [ok |-> TRUE, obj |-> json_loads(text)]
    ELSE IF IsJsonScalar(text)
    THEN [ok |-> FALSE, obj |-> NoObj]
    ELSE LET start_idx == Find(text, "lbrace")
             end_idx == RFind(text, "rbrace")
             json_str == SubSeq(text, start_idx, end_idx)
         IN  IF start_idx # 0 /\ end_idx # 0 /\ end_idx > start_idx
                /\ IsJson(json_str)
             THEN [ok |-> TRUE, obj |-> json_loads(json_str)]
             ELSE [ok |-> FALSE, obj |-> NoObj]

\* ValidationAgent._determine_status (thresholds 0.8, 0.5, 0.3)
_determine_status_strict(validation_json) ==
    LET overall_score == Float(Get(validation_json, "overall_score", JNum(0)))
        is_based_on_document ==
            Bool(Get(validation_json, "is_based_on_document", JBool(FALSE)))
        has_hallucinations ==
            Bool(Get(validation_json, "has_hallucinations", JBool(FALSE)))
    IN  IF has_hallucinations THEN "INVALID"
        ELSE IF ~is_based_on_document THEN "INVALID"
        ELSE IF overall_score > 80 THEN "VALID"
        ELSE IF overall_score > 50 THEN "PARTIALLY_VALID"
        ELSE IF overall_score > 30 THEN "UNCERTAIN"
        ELSE "INVALID"

_determine_status(validation_json) ==
    LET overall_score == Float(Get(validation_json, "overall_score", JNum(0)))
        is_based_on_document ==
            Bool(Get(validation_json, "is_based_on_document", JBool(FALSE)))
        has_hallucinations ==
            Bool(Get(validation_json, "has_hallucinations", JBool(FALSE)))
    IN  IF has_hallucinations THEN "INVALID"
        ELSE IF ~is_based_on_document THEN "INVALID"
        ELSE IF overall_score >= 80 THEN "VALID"
        ELSE IF overall_score >= 50 THEN "PARTIALLY_VALID"
        ELSE IF overall_score >= 30 THEN "UNCERTAIN"
        ELSE "INVALID"

NoValidationResult ==
    [status |-> "", overall_score |-> 0, is_based_on_document |-> FALSE,
     is_accurate |-> FALSE, is_complete |-> FALSE,
     has_hallucinations |-> FALSE, feedback |-> "", confidence |-> 0,
     issues |-> <<>>, suggestions |-> <<>>]

\* the result with the has_hallucinations field left at its default
ResultOfFlagDropped(validation_json) ==
    [status |-> _determine_status(validation_json),
     overall_score |-> Float(Get(validation_json, "overall_score", JNum(0))),
     is_based_on_document |->
         Bool(Get(validation_json, "is_based_on_document", JBool(FALSE))),
     is_accurate |-> Bool(Get(validation_json, "is_accurate", JBool(FALSE))),
     is_complete |-> Bool(Get(validation_json, "is_complete", JBool(FALSE))),
     has_hallucinations |-> FALSE,
     feedback |-> Get(validation_json, "feedback", ""),
     confidence |-> Float(Get(validation_json, "confidence", JNum(0))),
     issues |-> Get(validation_json, "issues", <<>>),
     suggestions |-> Get(validation_json, "suggestions", <<>>)]

\* lines 155-170
ResultOf(validation_json) ==
    [status |-> _determine_status(validation_json),
     overall_score |-> Float(Get(validation_json, "overall_score", JNum(0))),
     is_based_on_document |->
         Bool(Get(validation_json, "is_based_on_document", JBool(FALSE))),
     is_accurate |-> Bool(Get(validation_json, "is_accurate", JBool(FALSE))),
     is_complete |-> Bool(Get(validation_json, "is_complete", JBool(FALSE))),
     has_hallucinations |->
         Bool(Get(validation_json, "has_hallucinations", JBool(FALSE))),
     feedback |-> Get(validation_json, "feedback", ""),
     confidence |-> Float(Get(validation_json, "confidence", JNum(0))),
     issues |-> Get(validation_json, "issues", <<>>),
     suggestions |-> Get(validation_json, "suggestions", <<>>)]

\* lines 175-189: the result synthesized when the call or the parse failed
FailureResultInvalid ==
    [status |-> "INVALID", overall_score |-> 0,
     is_based_on_document |-> FALSE, is_accurate |-> FALSE,
     is_complete |-> FALSE, has_hallucinations |-> TRUE,
     feedback |-> "Validation error", confidence |-> 0,
     issues |-> <<"Validation process failed">>,
     suggestions |-> <<"Please retry the validation">>]

FailureResult ==
    [status |-> "UNCERTAIN", overall_score |-> 0,
     is_based_on_document |-> FALSE, is_accurate |-> FALSE,
     is_complete |-> FALSE, has_hallucinations |-> TRUE,
     feedback |-> "Validation error", confidence |-> 0,
     issues |-> <<"Validation process failed">>,
     suggestions |-> <<"Please retry the validation">>]

\* the nine fields the Generator is asked for
FieldNames ==
    {"is_based_on_document", "is_accurate", "is_complete",
     "has_hallucinations", "overall_score", "confidence", "issues",
     "suggestions", "feedback"}

\* lines 156-167: float() of a present field raises
ConversionRaises(validation_json) ==
    \/ FloatRaises(Get(validation_json, "overall_score", JNum(0)))
    \/ FloatRaises(Get(validation_json, "confidence", JNum(0)))

\* validate_answer from the return of the Generator call on.  out is what
\* the call produced: a fault, or the response text.  Every exception is
\* caught at line 175.
validate_answer_strict(out) ==
    IF out.fault THEN FailureResult
    ELSE IF IsJsonScalar(out.text) THEN FailureResult
    ELSE IF ~Parse(out.text).ok THEN FailureResult
    ELSE IF ConversionRaises(Parse(out.text).obj) THEN FailureResult
    ELSE IF DOMAIN Parse(out.text).obj # FieldNames THEN FailureResult
    ELSE ResultOf(Parse(out.text).obj)

validate_answer(out) ==
    IF out.fault THEN FailureResult
    ELSE IF IsJsonScalar(out.text) THEN FailureResult
    ELSE IF ~Parse(out.text).ok THEN FailureResult
    ELSE IF ConversionRaises(Parse(out.text).obj) THEN FailureResult
    ELSE ResultOf(Parse(out.text).obj)

\* ValidationStatus.value
StatusValue(status) ==
    CASE status = "VALID" -> "valid"
      [] status = "PARTIALLY_VALID" -> "partially_valid"
      [] status = "INVALID" -> "invalid"
      [] OTHER -> "uncertain"

format_validation_result(result) ==
    [validation_status |-> StatusValue(result.status),
     overall_score |-> result.overall_score,
     is_based_on_document |-> result.is_based_on_document,
     is_accurate |-> result.is_accurate,
     is_complete |-> result.is_complete,
     has_hallucinations |-> result.has_hallucinations,
     confidence |-> result.confidence,
     feedback |-> result.feedback,
     issues |-> result.issues,
     suggestions |-> result.suggestions]

\* what the Generator may answer to the validation prompt
GeneratorFault == [fault |-> TRUE, text |-> <<>>]
GeneratorText(text) == [fault |-> FALSE, text |-> text]

BoundaryScores == {0, 29, 30, 49, 50, 79, 80, 100}

ValidationObjects ==
    {[is_based_on_document |-> JBool(b), is_accurate |-> JBool(a),
      is_complete |-> JBool(c), has_hallucinations |-> JBool(h),
      overall_score |-> JNum(s), confidence |-> JNum(cf),
      issues |-> <<>>, suggestions |-> <<>>, feedback |-> "fb"] :
        b \in BOOLEAN, a \in BOOLEAN, c \in BOOLEAN, h \in BOOLEAN,
        s \in BoundaryScores, cf \in {0, 100}}

\* the object alone, or inside prose
Wrappings(obj) ==
    {ObjectText(obj),
     <<Tok("prose")>> \o ObjectText(obj),
     ObjectText(obj) \o <<Tok("prose")>>,
     <<Tok("prose")>> \o ObjectText(obj) \o <<Tok("prose")>>}

\* texts no object can be extracted from
BrokenTexts ==
    {<<>>, <<Tok("prose")>>, <<Tok("lbrace"), Tok("prose")>>,
     <<Tok("rbrace"), Tok("prose"), Tok("lbrace")>>,
     <<Tok("lbrace"), Tok("prose"), Tok("rbrace")>>}

ValidationOutputs ==
    {GeneratorFault, GeneratorText(<<Tok("scalar")>>)}
    \cup {GeneratorText(x) : x \in BrokenTexts}
    \cup {GeneratorText(ListText(o)) : o \in ValidationObjects}
    \cup {GeneratorText(x) : x \in UNION {Wrappings(o) : o \in ValidationObjects}}

\* Generator outputs beyond the expected ones: objects that lack fields,
\* scores outside [0, 1], values of the wrong type, and JSON that is no
\* object.
CompleteObjects ==
    {[is_based_on_document |-> JBool(TRUE), is_accurate |-> JBool(TRUE),
      is_complete |-> JBool(TRUE), has_hallucinations |-> JBool(h),
      overall_score |-> JNum(80), confidence |-> JNum(100),
      issues |-> <<"issue">>, suggestions |-> <<"suggestion">>,
      feedback |-> "fb"] : h \in BOOLEAN}

PartialObjects ==
    {[f \in present |-> o[f]] :
        present \in SUBSET FieldNames, o \in CompleteObjects}

OddScores == {JNum(-20), JNum(150), JBool(TRUE), JNull, JStr}

OddObjects ==
    {[o EXCEPT !.overall_score = s, !.confidence = c] :
        o \in CompleteObjects, s \in OddScores \cup {JNum(80)},
        c \in OddScores \cup {JNum(100)}}

AnyValidationOutputs ==
    {GeneratorFault, GeneratorText(<<Tok("scalar")>>)}
    \cup {GeneratorText(x) : x \in BrokenTexts}
    \cup {GeneratorText(ObjectText(o)) : o \in PartialObjects \cup OddObjects}

(***************************************************************************)
(* Responses of DocumentQAServer.ask_question.                             *)
(***************************************************************************)
NoResponse ==
    [status |-> "", answer |-> "", sources |-> <<>>,
     has_validation |-> FALSE,
     validation |-> format_validation_result(NoValidationResult)]

(***************************************************************************)
(* DocumentChunker.  A text is a sequence of characters; a letter, the     *)
(* space and the newline are told apart.                                   *)
(***************************************************************************)
Chars == {"a", " ", "\n"}

\* the characters str.strip() removes and \s matches
Whitespace == {" ", "\n"}

Texts == UNION {[1..n -> Chars] : n \in 0..MaxLen}

ChunkSizes == 1..MaxChunkSize

Overlaps == 0..MaxOverlap

\* DocumentChunker(chunk_size, overlap)
DocumentChunker(chunk_size, overlap) ==
    [chunk_size |-> chunk_size, overlap |-> overlap]

RECURSIVE lstrip(_)
lstrip(s) ==
    IF s # <<>> /\ Head(s) \in Whitespace THEN lstrip(Tail(s)) ELSE s

RECURSIVE rstrip(_)
rstrip(s) ==
    IF s # <<>> /\ s[Len(s)] \in Whitespace
    THEN rstrip(SubSeq(s, 1, Len(s) - 1))
    ELSE s

\* str.strip()
strip(s) == rstrip(lstrip(s))

Max(S) == CHOOSE x \in S : \A y \in S : y <= x

\* The match of \n\s*\n that starts at index i: the index of its last
\* character, 0 when there is none.  \s* is greedy, so the match ends at the
\* last newline of the whitespace that follows index i.
MatchEnd(s, i) ==
    IF s[i] # "\n" THEN 0
    ELSE LET ends == {j \in (i + 1)..Len(s) :
                         /\ s[j] = "\n"
                         /\ \A k \in (i + 1)..(j - 1) : s[k] \in Whitespace}
         IN  IF ends # {} THEN Max(ends) ELSE 0

\* re.split(r'\n\s*\n', s), scanning at index i with the current piece
\* starting at index from
RECURSIVE re_split(_, _, _)
re_split(s, from, i) ==
    IF i > Len(s) THEN <<SubSeq(s, from, Len(s))>>
    ELSE LET end == MatchEnd(s, i)
         IN  IF end # 0
             THEN <<SubSeq(s, from, i - 1)>> \o re_split(s, end + 1, end + 1)
             ELSE re_split(s, from, i + 1)

\* [p.strip() for p in paragraphs if p.strip()]
_split_by_paragraphs(content) ==
    LET paragraphs == re_split(content, 1, 1)
        stripped == [k \in 1..Len(paragraphs) |-> strip(paragraphs[k])]
    IN  SelectSeq(stripped, LAMBDA p : p # <<>>)

\* a chunk as chunk_document builds it
DocumentChunkSpan(content, chunk_id, source_file, start_char, end_char) ==
    [content |-> content, chunk_id |-> chunk_id,
     source_file |-> source_file, start_char |-> start_char,
     end_char |-> end_char, embedding |-> NoEmbedding]

\* s[-n:]; s[-0:] is the whole of s
Suffix(s, n) ==
    IF n = 0 \/ n >= Len(s) THEN s ELSE SubSeq(s, Len(s) - n + 1, Len(s))

\* chunk_id += 1
NextChunkIdSame(chunk_id) == chunk_id

NextChunkId(chunk_id) == chunk_id + 1

\* current_chunk += "\n" + paragraph
JoinedBlankLine(current_chunk, paragraph) ==
    current_chunk \o <<"\n", "\n">> \o paragraph

Joined(current_chunk, paragraph) == current_chunk \o <<"\n">> \o paragraph

\* the state of the loop of chunk_document before the first paragraph
LoopStart ==
    [chunks |-> <<>>, current_chunk |-> <<>>, current_start |-> 0,
     chunk_id |-> 0]

\* the chunk made of the buffer (lines 136-142 and 161-167)
Closed(st, source_file) ==
    DocumentChunkSpan(strip(st.current_chunk),
                      <<Stem(source_file), st.chunk_id>>, source_file,
                      st.current_start,
                      st.current_start + Len(st.current_chunk))

\* one pass of the loop body (lines 133-157)
LoopBody(self, st, paragraph, source_file) ==
    IF Len(st.current_chunk) + Len(paragraph) > self.chunk_size
       /\ st.current_chunk # <<>>
    THEN LET overlap_text ==
                 IF Len(st.current_chunk) > self.overlap
                 THEN Suffix(st.current_chunk, self.overlap)
                 ELSE st.current_chunk
             current_chunk == Joined(overlap_text, paragraph)
         IN  [chunks |-> Append(st.chunks, Closed(st, source_file)),
              current_chunk |-> current_chunk,
              current_start |-> st.current_start + Len(current_chunk)
                                  - Len(overlap_text) - Len(paragraph) - 1,
              chunk_id |-> NextChunkId(st.chunk_id)]
    ELSE IF st.current_chunk # <<>>
    THEN [st EXCEPT !.current_chunk = Joined(st.current_chunk, paragraph)]
    ELSE [st EXCEPT !.current_chunk = paragraph]

\* the loop over paragraphs[k..]
RECURSIVE Loop(_, _, _, _, _)
Loop(self, st, paragraphs, k, source_file) ==
    IF k > Len(paragraphs) THEN st
    ELSE Loop(self, LoopBody(self, st, paragraphs[k], source_file),
              paragraphs, k + 1, source_file)

\* DocumentChunker.chunk_document
chunk_document(self, content, source_file) ==
    LET st == Loop(self, LoopStart, _split_by_paragraphs(content), 1,
                   source_file)
    IN  IF strip(st.current_chunk) # <<>>
        THEN Append(st.chunks, Closed(st, source_file))
        ELSE st.chunks

(***************************************************************************)
(* The files DocumentLoader finds, and the responses of                    *)
(* DocumentQAServer.load_document and get_status.                          *)
(***************************************************************************)
\* "missing.txt" does not exist; "c.docx" exists
Paths == SourceFiles \cup {"missing.txt", "c.docx"}

\* Path(file_path).exists()
Exists(file_path) == file_path # "missing.txt"

\* Path(file_path).suffix.lower()
Suffix_(file_path) == IF file_path = "c.docx" THEN ".docx" ELSE ".txt"

supported_formats == {".pdf", ".txt", ".md", ".markdown"}

\* what is in the files: one paragraph, three paragraphs, blank lines only
FileText(file_path) ==
    CASE file_path = "a.txt" -> <<"a">>
      [] file_path = "b.txt" -> <<"a", "\n", "\n", "a", "\n", "\n", "a", "\n">>
      [] OTHER -> <<" ", "\n">>

\* DocumentLoader._load_text
_load_text(file_path) == strip(FileText(file_path))

\* DocumentChunker() of the server, its chunk_size 1000 and overlap 200
\* brought to the scale of the files above
document_chunker == DocumentChunker(3, 1)

Metadata(file_path, content_length, num_chunks, total_chunks_in_store) ==
    [keys |-> {"file_path", "content_length", "num_chunks",
               "total_chunks_in_store"},
     file_path |-> file_path, content_length |-> content_length,
     num_chunks |-> num_chunks,
     total_chunks_in_store |-> total_chunks_in_store]

\* "metadata": {}
EmptyMetadata ==
    [keys |-> {}, file_path |-> "", content_length |-> 0, num_chunks |-> 0,
     total_chunks_in_store |-> 0]

NoLoadResponse ==
    [status |-> "", message |-> <<>>, metadata |-> EmptyMetadata]

\* lines 449-458, all being the chunk list after add_chunks; the mutant
\* counts the list before
LoadSuccessStale(file_path, content, batch, all) ==
    [status |-> "success",
     message |-> <<"Successfully loaded document", file_path>>,
     metadata |-> Metadata(file_path, Len(content), Len(batch),
                           Len(all) - Len(batch))]

LoadSuccess(file_path, content, batch, all) ==
    [status |-> "success",
     message |-> <<"Successfully loaded document", file_path>>,
     metadata |-> Metadata(file_path, Len(content), Len(batch), Len(all))]

\* lines 460-466
LoadErrorWithMetadata(file_path, e) ==
    [status |-> "error", message |-> <<"Failed to load document", e>>,
     metadata |-> Metadata(file_path, 0, 0, 0)]

LoadError(file_path, e) ==
    [status |-> "error", message |-> <<"Failed to load document", e>>,
     metadata |-> EmptyMetadata]

NoStatusResponse ==
    [status |-> "", loaded_documents |-> <<>>, total_chunks |-> 0,
     supported_formats |-> {}]

\* list(set(chunk.source_file for chunk in self.embedding_store.chunks)):
\* the lists the set may be turned into, its elements once each in any order
loaded_files(store) ==
    LET files == {store[i].source_file : i \in 1..Len(store)}
    IN  {l \in [1..Cardinality(files) -> files] :
            \A i, j \in 1..Cardinality(files) : l[i] = l[j] => i = j}

\* lines 507-512, given the list; the mutant counts the files
StatusCountingFiles(store, files) ==
    [status |-> "active", loaded_documents |-> files,
     total_chunks |-> Len(files),
     supported_formats |-> supported_formats]

Status(store, files) ==
    [status |-> "active", loaded_documents |-> files,
     total_chunks |-> Len(store),
     supported_formats |-> supported_formats]

(***************************************************************************)
(* Requests to handle_mcp_request and its own responses.                   *)
(***************************************************************************)
\* params.get(key): None when the key is absent
None == [present |-> FALSE, v |-> ""]

Str(v) == [present |-> TRUE, v |-> v]

\* "not value": None and the empty string
Not(value) == ~value.present \/ value.v = ""

\* request.get("method"): the three operations, a name that is none of
\* them, and a request without method
Methods == {"load_document", "ask_question", "get_status", "clear", "None"}

Request(method, file_path, question) ==
    [method |-> method,
     params |-> [file_path |-> file_path, question |-> question]]

\* every method with every file_path, and with every question
Requests ==
    {Request(method, file_path, None) :
        method \in Methods,
        file_path \in {None, Str("")} \cup {Str(f) : f \in Paths}}
    \cup {Request(method, None, question) :
             method \in Methods,
             question \in {Str("")} \cup {Str(q) : q \in Queries}}

NoMcpError == [error |-> <<>>]

\* {"error": "<param> parameter is required"}; the mutant names the method
ParameterRequiredNamesMethod(method, param) ==
    [error |-> <<method, "parameter is required">>]

ParameterRequired(method, param) ==
    [error |-> <<param, "parameter is required">>]

\* {"error": f"Unknown method: {method}"}
UnknownMethod(method) == [error |-> <<"Unknown method", method>>]

(***************************************************************************)
(* SimpleDocumentQA (src/simple_document_qa.py): its chunker and the       *)
(* responses of load_document and ask_question.                            *)
(***************************************************************************)
\* content.split('\\n\\n'): the separator is the four characters
\* backslash, n, backslash, n, which no text of the model contains, so the
\* text is one paragraph
SplitLiteral(content) == <<content>>

\* SimpleDocumentQA._chunk_document with its chunk_size 1000 and overlap
\* 200: one paragraph never closes a buffer, the final chunk is the text
_chunk_document(content, source_file) ==
    LET current_chunk == SplitLiteral(content)[1]
    IN  IF strip(current_chunk) # <<>>
        THEN <<DocumentChunkSpan(strip(current_chunk),
                                 <<Stem(source_file), 0>>, source_file, 0,
                                 Len(current_chunk))>>
        ELSE <<>>

NoSimpleResponse ==
    [status |-> "", message |-> <<>>, chunks_created |-> 0,
     total_chunks |-> 0]

\* lines 63-68
SimpleLoaded(file_path, batch, store) ==
    [status |-> "success", message |-> <<"Loaded document", file_path>>,
     chunks_created |-> Len(batch), total_chunks |-> Len(store) + Len(batch)]

\* lines 70-74
SimpleLoadError(e) ==
    [NoSimpleResponse EXCEPT !.status = "error", !.message = <<e>>]

NoDocumentsLoaded == "No documents loaded. Please upload a document first."

NoRelevantContent == "No relevant content found in the loaded documents."

(***************************************************************************)
(* Local variables of a coroutine.                                         *)
(***************************************************************************)
NoLocals ==
    [batch |-> <<>>, query |-> "", top_k |-> 0, empty_at_call |-> FALSE,
     similarities |-> <<>>, results |-> <<>>, sources |-> <<>>, e |-> "",
     answer |-> "", validation_out |-> GeneratorFault,
     validation_result |-> NoValidationResult,
     response |-> NoResponse,
     content |-> <<>>, chunker |-> DocumentChunker(0, 0),
     doc_chunks |-> <<>>, file_path |-> "",
     load_response |-> NoLoadResponse, status_response |-> NoStatusResponse,
     mcp_response |-> NoMcpError, returned |-> <<>>,
     simple_response |-> NoSimpleResponse]

\* store contents after add_chunks has assigned the embeddings and extended
\* the list (lines 215-219)
ExtendedReversed(old, batch, embs) ==
    old \o [i \in 1..Len(batch) |->
              [batch[i] EXCEPT !.embedding = embs[Len(batch) + 1 - i]]]

Extended(old, batch, embs) ==
    old \o [i \in 1..Len(batch) |-> [batch[i] EXCEPT !.embedding = embs[i]]]

\* lines 222-223: the matrix is rebuilt from all chunks of the list
RebuildWithoutLast(all, old) ==
    Matrix([i \in 1..(Len(all) - 1) |-> all[i].embedding])

Rebuild(all, old) == Matrix([i \in 1..Len(all) |-> all[i].embedding])

(***************************************************************************)
(* Scheduling.  A coroutine that returns or raises hands its result to its *)
(* awaiting caller in the same uninterrupted stretch, so no other task     *)
(* runs while a result is pending.                                         *)
(***************************************************************************)
Finished ==
    {"add_done", "add_raised", "search_done", "search_raised", "ask_done",
     "validate_done", "chunk_done", "load_done", "status_done", "mcp_done",
     "simple_load_done", "simple_ask_done"}

CanStart(t) == pc[t] = "idle" /\ \A u \in Tasks : pc[u] \notin Finished

CanResume(t, at) == pc[t] = at /\ \A u \in Tasks : pc[u] \notin Finished

RECURSIVE SumLen(_)
SumLen(S) ==
    IF S = {} THEN 0
    ELSE LET u == CHOOSE x \in S : TRUE
         IN  Len(loc[u].batch) + SumLen(S \ {u})

\* chunks of the add_chunks calls waiting for the Embedder
InFlight == SumLen({u \in Tasks : pc[u] \in {"add_await", "load_await"}})

(***************************************************************************)
(* EmbeddingStore.add_chunks                                               *)
(***************************************************************************)
\* up to the await of _generate_embeddings
add_chunks_call_eager(t, f) ==
    /\ CanStart(t)
    /\ Len(chunks) + InFlight + Len(BatchOf(f)) <= MaxStore
    /\ pc' = [pc EXCEPT ![t] = "add_await"]
    /\ loc' = [loc EXCEPT ![t] = [NoLocals EXCEPT !.batch = <<>>]]
    /\ calls' = [calls EXCEPT ![t] = <<"embed">>]
    /\ chunks' = chunks \o BatchOf(f)
    /\ UNCHANGED <<embeddings, enable_validation, reported_chunks, background>>

add_chunks_call(t, f) ==
    /\ CanStart(t)
    /\ Len(chunks) + InFlight + Len(BatchOf(f)) <= MaxStore
    /\ pc' = [pc EXCEPT ![t] = "add_await"]
    /\ loc' = [loc EXCEPT ![t] = [NoLocals EXCEPT !.batch = BatchOf(f)]]
    /\ calls' = [calls EXCEPT ![t] = <<"embed">>]
    /\ UNCHANGED <<chunks, embeddings, enable_validation, reported_chunks, background>>

\* the Embedder raised: _generate_embeddings re-raises, add_chunks raises
add_chunks_fail(t) ==
    /\ CanResume(t, "add_await")
    /\ pc' = [pc EXCEPT ![t] = "add_raised"]
    /\ UNCHANGED <<chunks, embeddings, loc, calls, enable_validation, reported_chunks, background>>

\* the Embedder returned one vector per text, embs: the rest of add_chunks.
\* np.vstack of an empty list raises (empty batch into an empty store).
add_chunks_resume(t) ==
    /\ CanResume(t, "add_await")
    /\ \E embs \in [1..Len(loc[t].batch) -> Vectors] :
          LET all == Extended(chunks, loc[t].batch, embs)
          IN  /\ chunks' = all
              /\ loc' = [loc EXCEPT ![t].returned = embs]
              /\ IF all = <<>>
                 THEN /\ embeddings' = embeddings
                      /\ pc' = [pc EXCEPT ![t] = "add_raised"]
                 ELSE /\ embeddings' = Rebuild(all, embeddings)
                      /\ pc' = [pc EXCEPT ![t] = "add_done"]
    /\ UNCHANGED <<calls, enable_validation, reported_chunks, background>>

(***************************************************************************)
(* EmbeddingStore.search_similar                                           *)
(***************************************************************************)
StoreIsEmptyNever == FALSE

\* line 238
StoreIsEmpty == chunks = <<>> \/ ~embeddings.present

\* line 246: cosine_similarity(X, Y) with Y = None compares X with itself, so
\* a missing matrix gives the one similarity of the query with the query
SimilarityRows(qe) == IF embeddings.present THEN embeddings.rows ELSE <<qe>>

\* lines 246-255, given the query embedding qe and the argsort result p:
\* the locals after the loop
SearchLocals(l, qe, p) ==
    LET sims == cosine_similarity(qe, SimilarityRows(qe))
        top == TopIndices(p, l.top_k)
    IN  [l EXCEPT !.similarities = sims,
                  !.results = [i \in 1..Len(top) |->
                                  [idx |-> top[i],
                                   chunk |-> chunks[top[i]],
                                   score |-> sims[top[i]]]]]

\* line 253: chunks[idx] raises IndexError when a row has no chunk
SearchFaults(top_k) ==
    top_k > 0
    /\ (IF embeddings.present THEN Len(embeddings.rows) ELSE 1) > Len(chunks)

search_similar_call(t, q, k) ==
    /\ CanStart(t)
    /\ IF StoreIsEmpty
       THEN /\ pc' = [pc EXCEPT ![t] = "search_done"]
            /\ calls' = [calls EXCEPT ![t] = <<>>]
       ELSE /\ pc' = [pc EXCEPT ![t] = "search_await"]
            /\ calls' = [calls EXCEPT ![t] = <<"embed">>]
    /\ loc' = [loc EXCEPT ![t] = [NoLocals EXCEPT !.query = q, !.top_k = k,
                                      !.empty_at_call = (Len(chunks) = 0)]]
    /\ UNCHANGED <<chunks, embeddings, enable_validation, reported_chunks, background>>

search_similar_fail(t) ==
    /\ CanResume(t, "search_await")
    /\ pc' = [pc EXCEPT ![t] = "search_raised"]
    /\ UNCHANGED <<chunks, embeddings, loc, calls, enable_validation, reported_chunks, background>>

search_similar_resume(t, qe) ==
    /\ CanResume(t, "search_await")
    /\ IF SearchFaults(loc[t].top_k)
       THEN /\ pc' = [pc EXCEPT ![t] = "search_raised"]
            /\ loc' = loc
       ELSE \E p \in Argsorts(cosine_similarity(qe, SimilarityRows(qe))) :
               /\ pc' = [pc EXCEPT ![t] = "search_done"]
               /\ loc' = [loc EXCEPT ![t] = SearchLocals(loc[t], qe, p)]
    /\ UNCHANGED <<chunks, embeddings, calls, enable_validation, reported_chunks, background>>

(***************************************************************************)
(* QueryHandler.answer_question inside DocumentQAServer.ask_question       *)
(***************************************************************************)
max_context_chunks == 3

Sentinel == "No documents have been loaded. Please load a document first."
ErrorGenerating == "Error generating answer: <fault>"
ErrorProcessing == "Error processing question: <fault>"

\* what the Generator may answer to the question
Answers == {"generated answer", "The document does not contain this information"}

\* lines 327-333
SourcesOf(similar_chunks) ==
    [i \in 1..Len(similar_chunks) |->
        [file |-> similar_chunks[i].chunk.source_file,
         chunk_id |-> similar_chunks[i].chunk.chunk_id,
         similarity_score |-> similar_chunks[i].score]]

\* ask_question, lines 481-487, given the result of answer_question
Success(answer, sources) ==
    [NoResponse EXCEPT !.status = "success", !.answer = answer,
                       !.sources = sources]

SuccessValidated(answer, sources, validation_result) ==
    [NoResponse EXCEPT !.status = "success", !.answer = answer,
                       !.sources = sources, !.has_validation = TRUE,
                       !.validation =
                           format_validation_result(validation_result)]

\* ask_question, lines 489-496: answer_question raised
\* the mutant leaves the status out
ErrorWithoutStatus == [NoResponse EXCEPT !.answer = ErrorProcessing]

Error == [NoResponse EXCEPT !.status = "error", !.answer = ErrorProcessing]

\* answer_question, lines 391-396: the Generator call for the answer raised
GenerationFailedNoSources(sources) == Success(ErrorGenerating, <<>>)

GenerationFailed(sources) == Success(ErrorGenerating, sources)

\* the exception e caught by an except clause, and the response returned
Respond(t, e, response) ==
    /\ pc' = [pc EXCEPT ![t] = "ask_done"]
    /\ loc' = [loc EXCEPT ![t].e = e, ![t].response = response]

\* an external call is issued: the calls of the operation so far, and the
\* new one after them
IssuedFirst(issued, call) == <<call>> \o issued

Issued(issued, call) == Append(issued, call)

\* the search of answer_question finds the store empty (line 238)
AnswerWithoutSearchNever == FALSE

AnswerWithoutSearch == StoreIsEmpty

\* up to the await inside search_similar, or to the return of the sentinel
ask_question_call(t, q) ==
    /\ CanStart(t)
    /\ IF AnswerWithoutSearch
       THEN /\ pc' = [pc EXCEPT ![t] = "ask_done"]
            /\ loc' = [loc EXCEPT ![t] =
                         [NoLocals EXCEPT !.query = q,
                              !.top_k = max_context_chunks,
                              !.empty_at_call = (Len(chunks) = 0),
                              !.response = Success(Sentinel, <<>>)]]
            /\ calls' = [calls EXCEPT ![t] = <<>>]
       ELSE /\ pc' = [pc EXCEPT ![t] = "ask_embed_await"]
            /\ loc' = [loc EXCEPT ![t] =
                         [NoLocals EXCEPT !.query = q,
                              !.top_k = max_context_chunks,
                              !.empty_at_call = (Len(chunks) = 0)]]
            /\ calls' = [calls EXCEPT ![t] = <<"embed">>]
    /\ UNCHANGED <<chunks, embeddings, enable_validation, reported_chunks, background>>

\* the Embedder raised: search_similar and answer_question raise
ask_embed_fail(t) ==
    /\ CanResume(t, "ask_embed_await")
    /\ Respond(t, "EmbeddingServiceError", Error)
    /\ UNCHANGED <<chunks, embeddings, calls, enable_validation, reported_chunks, background>>

\* the Embedder returned the query embedding: rest of search_similar, then
\* answer_question up to the await of the Generator
ask_embed_resume(t, qe) ==
    /\ CanResume(t, "ask_embed_await")
    /\ IF SearchFaults(loc[t].top_k)
       THEN /\ Respond(t, "IndexError", Error)
            /\ calls' = calls
       ELSE \E p \in Argsorts(cosine_similarity(qe, SimilarityRows(qe))) :
               LET l == [SearchLocals(loc[t], qe, p)
                           EXCEPT !.similarities = <<>>]
               IN  IF l.results = <<>>
                   THEN /\ pc' = [pc EXCEPT ![t] = "ask_done"]
                        /\ loc' = [loc EXCEPT ![t] =
                                     [l EXCEPT !.response =
                                                 Success(Sentinel, <<>>)]]
                        /\ calls' = calls
                   ELSE /\ pc' = [pc EXCEPT ![t] = "ask_gen_await"]
                        /\ loc' = [loc EXCEPT ![t] =
                                     [l EXCEPT !.sources =
                                                 SourcesOf(l.results)]]
                        /\ calls' = [calls EXCEPT ![t] =
                                       Issued(@, "generate_answer")]
    /\ UNCHANGED <<chunks, embeddings, enable_validation, reported_chunks, background>>

\* the Generator raised while answering
ask_gen_fail(t) ==
    /\ CanResume(t, "ask_gen_await")
    /\ Respond(t, "GenerationServiceError", GenerationFailed(loc[t].sources))
    /\ UNCHANGED <<chunks, embeddings, calls, enable_validation, reported_chunks, background>>

\* the Generator returned the answer: up to the await inside validate_answer,
\* or to the return when there is no validation agent
ask_gen_resume(t, answer) ==
    /\ CanResume(t, "ask_gen_await")
    /\ IF enable_validation
       THEN /\ pc' = [pc EXCEPT ![t] = "ask_val_await"]
            /\ loc' = [loc EXCEPT ![t].answer = answer]
            /\ calls' = [calls EXCEPT ![t] = Issued(@, "generate_validation")]
       ELSE /\ pc' = [pc EXCEPT ![t] = "ask_done"]
            /\ loc' = [loc EXCEPT ![t].answer = answer,
                                  ![t].response =
                                      Success(answer, loc[t].sources)]
            /\ calls' = calls
    /\ UNCHANGED <<chunks, embeddings, enable_validation, reported_chunks, background>>

\* answer_question, lines 380-389, once validate_answer has returned
ValidatedOrWithheld(answer, sources, validation_result) ==
    IF validation_result.status \in {"INVALID", "UNCERTAIN"}
    THEN Error
    ELSE SuccessValidated(answer, sources, validation_result)

Validated(answer, sources, validation_result) ==
    SuccessValidated(answer, sources, validation_result)

\* the Generator call of validate_answer returned or raised
ask_val_resume(t, out) ==
    /\ CanResume(t, "ask_val_await")
    /\ LET validation_result == validate_answer(out)
       IN  /\ pc' = [pc EXCEPT ![t] = "ask_done"]
           /\ loc' = [loc EXCEPT
                        ![t].validation_result = validation_result,
                        ![t].response =
                            Validated(loc[t].answer, loc[t].sources,
                                      validation_result)]
    /\ UNCHANGED <<chunks, embeddings, calls, enable_validation, reported_chunks, background>>

\* validation outputs tried inside ask_question: a fault, a text without
\* JSON, and objects that are judged VALID, INVALID and UNCERTAIN
AskValidationOutputs ==
    {GeneratorFault, GeneratorText(<<Tok("prose")>>)}
    \cup {GeneratorText(ObjectText(o)) :
            o \in {v \in ValidationObjects :
                     /\ v.is_accurate.b /\ v.is_complete.b
                     /\ v.is_based_on_document.b
                     /\ v.confidence.n = 100
                     /\ \/ v.has_hallucinations.b /\ v.overall_score.n = 80
                        \/ ~v.has_hallucinations.b
                           /\ v.overall_score.n \in {30, 80}}}

(***************************************************************************)
(* ValidationAgent.validate_answer called on its own                       *)
(***************************************************************************)
validate_answer_call(t) ==
    /\ CanStart(t)
    /\ pc' = [pc EXCEPT ![t] = "validate_await"]
    /\ loc' = [loc EXCEPT ![t] = NoLocals]
    /\ calls' = [calls EXCEPT ![t] = <<"generate_validation">>]
    /\ UNCHANGED <<chunks, embeddings, enable_validation, reported_chunks, background>>

validate_answer_resume(t, out) ==
    /\ CanResume(t, "validate_await")
    /\ pc' = [pc EXCEPT ![t] = "validate_done"]
    /\ loc' = [loc EXCEPT ![t].validation_out = out,
                          ![t].validation_result = validate_answer(out)]
    /\ UNCHANGED <<chunks, embeddings, calls, enable_validation, reported_chunks, background>>

(***************************************************************************)
(* EmbeddingStore.clear                                                    *)
(***************************************************************************)
clear_keeps_matrix(t) ==
    /\ CanStart(t)
    /\ chunks' = <<>>
    /\ UNCHANGED <<embeddings, pc, loc, calls, enable_validation, reported_chunks, background>>

clear(t) ==
    /\ CanStart(t)
    /\ chunks' = <<>>
    /\ embeddings' = NoMatrix
    /\ UNCHANGED <<pc, loc, calls, enable_validation, reported_chunks, background>>

(***************************************************************************)
(* The caller takes the result; the task is free for the next operation.   *)
(***************************************************************************)
(***************************************************************************)
(* DocumentChunker.chunk_document called on its own: no await, one stretch *)
(***************************************************************************)
chunk_document_call(t) ==
    /\ CanStart(t)
    /\ pc' = [pc EXCEPT ![t] = "chunk_done"]
    /\ \E content \in Texts, chunk_size \in ChunkSizes, overlap \in Overlaps :
          loc' = [loc EXCEPT ![t] =
                    [NoLocals EXCEPT
                        !.content = content,
                        !.chunker = DocumentChunker(chunk_size, overlap),
                        !.doc_chunks =
                            chunk_document(
                                DocumentChunker(chunk_size, overlap),
                                content, "a.txt")]]
    /\ UNCHANGED <<chunks, embeddings, calls, enable_validation, reported_chunks, background>>

(***************************************************************************)
(* DocumentQAServer.load_document                                          *)
(***************************************************************************)
\* the loader raises (lines 74-75, 84), or load and chunk up to the await
\* of add_chunks -> _generate_embeddings
load_document_call(t, file_path) ==
    /\ CanStart(t)
    /\ IF ~Exists(file_path)
       THEN /\ pc' = [pc EXCEPT ![t] = "load_done"]
            /\ loc' = [loc EXCEPT ![t] =
                         [NoLocals EXCEPT
                             !.file_path = file_path,
                             !.load_response =
                                 LoadError(file_path, "Document not found")]]
            /\ calls' = [calls EXCEPT ![t] = <<>>]
       ELSE IF Suffix_(file_path) \notin supported_formats
       THEN /\ pc' = [pc EXCEPT ![t] = "load_done"]
            /\ loc' = [loc EXCEPT ![t] =
                         [NoLocals EXCEPT
                             !.file_path = file_path,
                             !.load_response =
                                 LoadError(file_path,
                                           "Unsupported file format")]]
            /\ calls' = [calls EXCEPT ![t] = <<>>]
       ELSE LET content == _load_text(file_path)
                batch == chunk_document(document_chunker, content, file_path)
            IN  /\ Len(chunks) + InFlight + Len(batch) <= MaxLoaded
                /\ pc' = [pc EXCEPT ![t] = "load_await"]
                /\ loc' = [loc EXCEPT ![t] =
                             [NoLocals EXCEPT !.file_path = file_path,
                                              !.content = content,
                                              !.batch = batch]]
                /\ calls' = [calls EXCEPT ![t] = <<"embed">>]
    /\ UNCHANGED <<chunks, embeddings, enable_validation, reported_chunks, background>>

\* the Embedder raised: add_chunks raises, the except clause answers
load_document_fail(t) ==
    /\ CanResume(t, "load_await")
    /\ pc' = [pc EXCEPT ![t] = "load_done"]
    /\ loc' = [loc EXCEPT ![t].load_response =
                 LoadError(loc[t].file_path, "Embedder")]
    /\ UNCHANGED <<chunks, embeddings, calls, enable_validation,
                   reported_chunks, background>>

\* the Embedder returned: the rest of add_chunks and the response, without
\* another await.  np.vstack of an empty list raises.
load_document_resume(t) ==
    /\ CanResume(t, "load_await")
    /\ pc' = [pc EXCEPT ![t] = "load_done"]
    /\ \E embs \in [1..Len(loc[t].batch) -> Vectors] :
          LET all == Extended(chunks, loc[t].batch, embs)
          IN  /\ chunks' = all
              /\ IF all = <<>>
                 THEN /\ embeddings' = embeddings
                      /\ loc' = [loc EXCEPT ![t].load_response =
                                   LoadError(loc[t].file_path, "vstack")]
                      /\ reported_chunks' = reported_chunks
                 ELSE /\ embeddings' = Rebuild(all, embeddings)
                      /\ loc' = [loc EXCEPT ![t].load_response =
                                   LoadSuccess(loc[t].file_path,
                                               loc[t].content,
                                               loc[t].batch, all)]
                      /\ reported_chunks' =
                            reported_chunks + Len(loc[t].batch)
    /\ UNCHANGED <<calls, enable_validation, background>>

(***************************************************************************)
(* DocumentQAServer.get_status: no await                                   *)
(***************************************************************************)
get_status(t) ==
    /\ CanStart(t)
    /\ pc' = [pc EXCEPT ![t] = "status_done"]
    /\ \E files \in loaded_files(chunks) :
          loc' = [loc EXCEPT ![t] =
                    [NoLocals EXCEPT
                        !.status_response = Status(chunks, files)]]
    /\ calls' = [calls EXCEPT ![t] = <<>>]
    /\ UNCHANGED <<chunks, embeddings, enable_validation, reported_chunks, background>>

(***************************************************************************)
(* handle_mcp_request: the dispatch and the stretch of the operation up to *)
(* its first await; the operation's response is returned as it is.        *)
(***************************************************************************)
\* return {"error": ...} of the dispatcher itself
mcp_error(t, response) ==
    /\ CanStart(t)
    /\ pc' = [pc EXCEPT ![t] = "mcp_done"]
    /\ loc' = [loc EXCEPT ![t] = [NoLocals EXCEPT !.mcp_response = response]]
    /\ calls' = [calls EXCEPT ![t] = <<>>]
    /\ UNCHANGED <<chunks, embeddings, enable_validation, reported_chunks, background>>

handle_mcp_request(t, request) ==
    LET method == request.method
        params == request.params
    IN  IF method = "load_document"
        THEN IF Not(params.file_path)
             THEN mcp_error(t, ParameterRequired(method, "file_path"))
             ELSE load_document_call(t, params.file_path.v)
        ELSE IF method = "ask_question"
        THEN IF Not(params.question)
             THEN mcp_error(t, ParameterRequired(method, "question"))
             ELSE ask_question_call(t, params.question.v)
        ELSE IF method = "get_status"
        THEN get_status(t)
        ELSE mcp_error(t, UnknownMethod(method))

(***************************************************************************)
(* SimpleDocumentQA.load_document: synchronous; the insertion is handed to *)
(* a task of its own (asyncio.create_task) that nobody awaits.             *)
(***************************************************************************)
RECURSIVE SumBatches(_)
SumBatches(batches) ==
    IF batches = <<>> THEN 0
    ELSE Len(Head(batches)) + SumBatches(Tail(batches))

Remove(seq, i) == SubSeq(seq, 1, i - 1) \o SubSeq(seq, i + 1, Len(seq))

simple_load_document(t, file_path) ==
    /\ CanStart(t)
    /\ pc' = [pc EXCEPT ![t] = "simple_load_done"]
    /\ calls' = [calls EXCEPT ![t] = <<>>]
    /\ IF ~Exists(file_path)
       THEN /\ loc' = [loc EXCEPT ![t] =
                         [NoLocals EXCEPT
                             !.file_path = file_path,
                             !.simple_response =
                                 SimpleLoadError("File not found")]]
            /\ background' = background
       ELSE LET content == FileText(file_path)
                batch == _chunk_document(content, file_path)
            IN  /\ Len(chunks) + SumBatches(background) + Len(batch)
                      <= MaxLoaded
                /\ Len(background) < MaxLoaded
                /\ loc' = [loc EXCEPT ![t] =
                             [NoLocals EXCEPT
                                 !.file_path = file_path,
                                 !.content = content,
                                 !.batch = batch,
                                 !.simple_response =
                                     SimpleLoaded(file_path, batch, chunks)]]
                /\ background' = Append(background, batch)
    /\ UNCHANGED <<chunks, embeddings, enable_validation, reported_chunks>>

\* _add_chunks_async of the i-th waiting task after the Embedder returned
add_chunks_async_resume(i) ==
    /\ \A u \in Tasks : pc[u] \notin Finished
    /\ i \in 1..Len(background)
    /\ \E embs \in [1..Len(background[i]) -> Vectors] :
          LET all == Extended(chunks, background[i], embs)
          IN  /\ chunks' = all
              /\ embeddings' = IF all # <<>> THEN Rebuild(all, embeddings)
                               ELSE embeddings
    /\ background' = Remove(background, i)
    /\ UNCHANGED <<pc, loc, calls, enable_validation, reported_chunks>>

\* the Embedder raised in the i-th waiting task: the task ends with the
\* exception, which no one retrieves
add_chunks_async_fail(i) ==
    /\ \A u \in Tasks : pc[u] \notin Finished
    /\ i \in 1..Len(background)
    /\ background' = Remove(background, i)
    /\ UNCHANGED <<chunks, embeddings, pc, loc, calls, enable_validation,
                   reported_chunks>>

(***************************************************************************)
(* SimpleDocumentQA.ask_question                                           *)
(***************************************************************************)
SimpleRespond(t, status, answer, sources) ==
    /\ pc' = [pc EXCEPT ![t] = "simple_ask_done"]
    /\ loc' = [loc EXCEPT ![t].response =
                 [NoResponse EXCEPT !.status = status, !.answer = answer,
                                    !.sources = sources]]

\* up to the await in _search_similar_chunks
simple_ask_question_call(t, q) ==
    /\ CanStart(t)
    /\ IF chunks = <<>>
       THEN /\ pc' = [pc EXCEPT ![t] = "simple_ask_done"]
            /\ loc' = [loc EXCEPT ![t] =
                         [NoLocals EXCEPT
                             !.query = q,
                             !.response =
                                 [NoResponse EXCEPT
                                     !.status = "error",
                                     !.answer = NoDocumentsLoaded]]]
            /\ calls' = [calls EXCEPT ![t] = <<>>]
       ELSE IF ~embeddings.present
       THEN /\ pc' = [pc EXCEPT ![t] = "simple_ask_done"]
            /\ loc' = [loc EXCEPT ![t] =
                         [NoLocals EXCEPT
                             !.query = q,
                             !.response =
                                 [NoResponse EXCEPT
                                     !.status = "success",
                                     !.answer = NoRelevantContent]]]
            /\ calls' = [calls EXCEPT ![t] = <<>>]
       ELSE /\ pc' = [pc EXCEPT ![t] = "simple_ask_embed_await"]
            /\ loc' = [loc EXCEPT ![t] =
                         [NoLocals EXCEPT !.query = q,
                                          !.top_k = max_context_chunks]]
            /\ calls' = [calls EXCEPT ![t] = <<"embed">>]
    /\ UNCHANGED <<chunks, embeddings, enable_validation, reported_chunks,
                   background>>

\* a call to the Embedder or the Generator raised: the except clause
simple_ask_fail(t) ==
    /\ \/ CanResume(t, "simple_ask_embed_await")
       \/ CanResume(t, "simple_ask_gen_await")
    /\ SimpleRespond(t, "error", ErrorProcessing, <<>>)
    /\ UNCHANGED <<chunks, embeddings, calls, enable_validation,
                   reported_chunks, background>>

\* the Embedder returned: the rest of _search_similar_chunks, up to the
\* await in _generate_answer
simple_ask_embed_resume(t, qe) ==
    /\ CanResume(t, "simple_ask_embed_await")
    /\ \E p \in Argsorts(cosine_similarity(qe, SimilarityRows(qe))) :
          LET l == [SearchLocals(loc[t], qe, p) EXCEPT !.similarities = <<>>]
          IN  IF l.results = <<>>
              THEN /\ pc' = [pc EXCEPT ![t] = "simple_ask_done"]
                   /\ loc' = [loc EXCEPT ![t] =
                                [l EXCEPT !.response =
                                    [NoResponse EXCEPT
                                        !.status = "success",
                                        !.answer = NoRelevantContent]]]
                   /\ calls' = calls
              ELSE /\ pc' = [pc EXCEPT ![t] = "simple_ask_gen_await"]
                   /\ loc' = [loc EXCEPT ![t] = l]
                   /\ calls' = [calls EXCEPT ![t] =
                                  Issued(@, "generate_answer")]
    /\ UNCHANGED <<chunks, embeddings, enable_validation, reported_chunks,
                   background>>

\* the Generator returned the answer
simple_ask_gen_resume(t, answer) ==
    /\ CanResume(t, "simple_ask_gen_await")
    /\ SimpleRespond(t, "success", answer, SourcesOf(loc[t].results))
    /\ UNCHANGED <<chunks, embeddings, calls, enable_validation,
                   reported_chunks, background>>

task_return(t) ==
    /\ pc[t] \in Finished
    /\ pc' = [pc EXCEPT ![t] = "idle"]
    /\ loc' = [loc EXCEPT ![t] = NoLocals]
    /\ calls' = [calls EXCEPT ![t] = <<>>]
    /\ UNCHANGED <<chunks, embeddings, enable_validation, reported_chunks, background>>

Init ==
    /\ chunks = <<>>
    /\ embeddings = NoMatrix
    /\ pc = [t \in Tasks |-> "idle"]
    /\ loc = [t \in Tasks |-> NoLocals]
    /\ calls = [t \in Tasks |-> <<>>]
    /\ enable_validation \in BOOLEAN
    /\ reported_chunks = 0
    /\ background = <<>>

\* concurrent use of one EmbeddingStore
Next ==
    \/ \E t \in Tasks, f \in SourceFiles : add_chunks_call(t, f)
    \/ \E t \in Tasks : add_chunks_fail(t)
    \/ \E t \in Tasks : add_chunks_resume(t)
    \/ \E t \in Tasks, q \in Queries, k \in TopKs : search_similar_call(t, q, k)
    \/ \E t \in Tasks : search_similar_fail(t)
    \/ \E t \in Tasks, qe \in Vectors : search_similar_resume(t, qe)
    \/ \E t \in Tasks : clear(t)
    \/ \E t \in Tasks : task_return(t)

Spec == Init /\ [][Next]_vars

\* ask_question while the store is filled and cleared
NextServer ==
    \/ \E t \in Writers, f \in SourceFiles : add_chunks_call(t, f)
    \/ \E t \in Writers : add_chunks_fail(t)
    \/ \E t \in Writers : add_chunks_resume(t)
    \/ \E t \in Writers : clear(t)
    \/ \E t \in Askers, q \in Queries : ask_question_call(t, q)
    \/ \E t \in Askers : ask_embed_fail(t)
    \/ \E t \in Askers, qe \in Vectors : ask_embed_resume(t, qe)
    \/ \E t \in Askers : ask_gen_fail(t)
    \/ \E t \in Askers, answer \in Answers : ask_gen_resume(t, answer)
    \/ \E t \in Askers, out \in AskValidationOutputs : ask_val_resume(t, out)
    \/ \E t \in Tasks : task_return(t)

SpecServer == Init /\ [][NextServer]_vars

\* the validation agent alone, over every output of the Generator
NextValidation ==
    \/ \E t \in Tasks : validate_answer_call(t)
    \/ \E t \in Tasks, out \in ValidationOutputs :
          validate_answer_resume(t, out)
    \/ \E t \in Tasks : task_return(t)

SpecValidation == Init /\ [][NextValidation]_vars

\* the validation agent alone, over unexpected outputs of the Generator
NextValidationAny ==
    \/ \E t \in Tasks : validate_answer_call(t)
    \/ \E t \in Tasks, out \in AnyValidationOutputs :
          validate_answer_resume(t, out)
    \/ \E t \in Tasks : task_return(t)

SpecValidationAny == Init /\ [][NextValidationAny]_vars

\* the chunker alone, over every text, chunk_size and overlap
NextChunker ==
    \/ \E t \in Askers : chunk_document_call(t)
    \/ \E t \in Askers : task_return(t)

SpecChunker == Init /\ [][NextChunker]_vars

\* load_document and get_status requests of two clients of one server
NextIngest ==
    \/ \E t \in Tasks, file_path \in Paths : load_document_call(t, file_path)
    \/ \E t \in Tasks : load_document_fail(t)
    \/ \E t \in Tasks : load_document_resume(t)
    \/ \E t \in Tasks : get_status(t)
    \/ \E t \in Tasks : task_return(t)

SpecIngest == Init /\ [][NextIngest]_vars

\* requests of two clients to handle_mcp_request; the first client is the
\* one that asks
RequestsOf(t) ==
    {request \in Requests : request.method = "ask_question" => t \in Askers}

NextDispatch ==
    \/ \E t \in Tasks : \E request \in RequestsOf(t) :
          handle_mcp_request(t, request)
    \/ \E t \in Tasks : load_document_fail(t)
    \/ \E t \in Tasks : load_document_resume(t)
    \/ \E t \in Askers : ask_embed_fail(t)
    \/ \E t \in Askers, qe \in Vectors : ask_embed_resume(t, qe)
    \/ \E t \in Askers : ask_gen_fail(t)
    \/ \E t \in Askers, answer \in Answers : ask_gen_resume(t, answer)
    \/ \E t \in Askers, out \in AskValidationOutputs : ask_val_resume(t, out)
    \/ \E t \in Tasks : task_return(t)

SpecDispatch == Init /\ [][NextDispatch]_vars

\* the external call task t waits for returns or fails, and the operation
\* runs on to its next await or to its response
Completes(t) ==
    \/ load_document_fail(t)
    \/ load_document_resume(t)
    \/ ask_embed_fail(t)
    \/ \E qe \in Vectors : ask_embed_resume(t, qe)
    \/ ask_gen_fail(t)
    \/ \E answer \in Answers : ask_gen_resume(t, answer)
    \/ \E out \in AskValidationOutputs : ask_val_resume(t, out)

\* every external call returns or fails, the event loop resumes every task
\* whose call has completed, and every caller takes its response
SpecDispatchFair ==
    /\ SpecDispatch
    /\ \A t \in Tasks : SF_vars(Completes(t)) /\ WF_vars(task_return(t))

\* SimpleDocumentQA behind its web server: uploads and questions
NextSimple ==
    \/ \E t \in Tasks, file_path \in Paths : simple_load_document(t, file_path)
    \/ \E i \in 1..MaxLoaded : add_chunks_async_resume(i)
    \/ \E i \in 1..MaxLoaded : add_chunks_async_fail(i)
    \/ \E t \in Askers, q \in Queries : simple_ask_question_call(t, q)
    \/ \E t \in Askers : simple_ask_fail(t)
    \/ \E t \in Askers, qe \in Vectors : simple_ask_embed_resume(t, qe)
    \/ \E t \in Askers, answer \in Answers : simple_ask_gen_resume(t, answer)
    \/ \E t \in Tasks : task_return(t)

SpecSimple == Init /\ [][NextSimple]_vars

(***************************************************************************)
(* Properties.                                                             *)
(***************************************************************************)
\* the chunk list is made of whole batches, one after the other
RECURSIVE WholeBatches(_)
WholeBatches(s) ==
    \/ s = <<>>
    \/ \E f \in SourceFiles :
          LET n == Len(BatchOf(f))
          IN  /\ n > 0 /\ n <= Len(s)
              /\ \A i \in 1..n : [s[i] EXCEPT !.embedding = NoEmbedding]
                                    = BatchOf(f)[i]
              /\ WholeBatches(SubSeq(s, n + 1, Len(s)))

\* the matrix holds, row by row, the embeddings of the chunks of the list
MatrixOfList ==
    /\ embeddings.present
    /\ Len(embeddings.rows) = Len(chunks)
    /\ \A i \in 1..Len(chunks) : embeddings.rows[i] = chunks[i].embedding

\* C1: no partial visibility.  In the step in which a search reads the store
\* (it resumes from the Embedder call and computes its result), the list and
\* the matrix belong to one state: the matrix has one row per chunk of the
\* list, each the embedding of that chunk, the list consists of whole
\* batches only, and the search ranks exactly that many similarities.  A
\* store cleared meanwhile has no matrix and no chunk: that too is one state.
C1_NoPartialVisibility ==
    [][\A t \in Tasks :
          (pc[t] = "search_await" /\ pc'[t] = "search_done")
          => /\ WholeBatches(chunks)
             /\ IF embeddings.present
                THEN /\ MatrixOfList
                     /\ Len(loc'[t].similarities) = Len(chunks)
                ELSE chunks = <<>>]_vars

\* a search has completed on a store while an insert is still in flight
C1_Witness ==
    \E t, u \in Tasks :
       /\ pc[t] = "search_done" /\ loc[t].results # <<>>
       /\ pc[u] = "add_await" /\ loc[u].batch # <<>>

\* C2: store size invariant.  In every state the number of stored chunks
\* equals the number of rows of the matrix, an absent matrix counting as 0.
C2_StoreSizeInvariant ==
    Len(chunks) = (IF embeddings.present THEN Len(embeddings.rows) ELSE 0)

\* an add_chunks call has failed on a store that holds chunks
C2_Witness ==
    \E t \in Tasks : pc[t] = "add_raised" /\ Len(chunks) = MaxStore

\* C3: insert is all-or-nothing.  No step of an add_chunks call that ends
\* by raising (its start, and the failure itself) changes the chunk list or
\* the matrix.
C3_InsertAllOrNothing ==
    [][\A t \in Tasks :
          (pc'[t] \in {"add_await", "add_raised"} /\ pc'[t] # pc[t])
          => (chunks' = chunks /\ embeddings' = embeddings)]_vars

\* add_chunks of a non-empty batch has raised on a non-empty store
C3_Witness ==
    \E t \in Tasks :
       pc[t] = "add_raised" /\ loc[t].batch # <<>> /\ chunks # <<>>

\* position of index idx in the results of task t, 0 when it is not returned
Rank(t, idx) ==
    IF \E i \in 1..Len(loc[t].results) : loc[t].results[i].idx = idx
    THEN CHOOSE i \in 1..Len(loc[t].results) : loc[t].results[i].idx = idx
    ELSE 0

\* C4: search tie-break.  Of two chunks with equal similarity the one
\* inserted earlier is ranked first; when the later one is returned, so is
\* the earlier one.
C4_TieBreakEarlierFirst ==
    \A t \in Tasks :
       pc[t] = "search_done"
       => \A i, j \in 1..Len(loc[t].similarities) :
             (i < j /\ ScoreEQ(loc[t].similarities[i], loc[t].similarities[j])
                /\ Rank(t, j) # 0)
             => (Rank(t, i) # 0 /\ Rank(t, i) < Rank(t, j))

\* C5: search result size and order.  A search that has read a non-empty
\* store returns min(top_k, store size) pairs; no chunk twice; each pair is
\* the chunk at its index with the similarity of that index; scores do not
\* increase along the result; no chunk left out scores higher than a
\* returned one.
C5_ResultSizeAndOrder ==
    \A t \in Tasks :
       (pc[t] = "search_done" /\ loc[t].similarities # <<>>)
       => LET r == loc[t].results
              sims == loc[t].similarities
          IN  /\ Len(r) = Min(loc[t].top_k, Len(sims))
              /\ \A i, j \in 1..Len(r) : r[i].idx = r[j].idx => i = j
              /\ \A i \in 1..Len(r) :
                    /\ r[i].idx \in 1..Len(sims)
                    /\ r[i].score = sims[r[i].idx]
              /\ \A i \in 1..(Len(r) - 1) : ScoreLE(r[i + 1].score, r[i].score)
              /\ \A i \in 1..Len(r), x \in 1..Len(sims) :
                    Rank(t, x) = 0 => ScoreLE(sims[x], r[i].score)

\* a search with top_k below the store size has left out a lower score
C5_Witness ==
    \E t \in Tasks :
       /\ pc[t] = "search_done"
       /\ Len(loc[t].results) = 1 /\ Len(loc[t].similarities) = 2
       /\ \E x \in 1..2 :
             ScoreLT(loc[t].similarities[x], loc[t].results[1].score)

SearchStates == {"search_await", "search_done", "search_raised"}

\* C6: a search called on a store without chunks returns the empty sequence
\* at once and has made no Embedder call.
C6_EmptyStoreSearch ==
    \A t \in Tasks :
       (pc[t] \in SearchStates /\ loc[t].empty_at_call)
       => /\ pc[t] = "search_done"
          /\ loc[t].results = <<>>
          /\ calls[t] = <<>>

\* a search asking for results has returned from an empty store
C6_Witness ==
    \E t \in Tasks :
       pc[t] = "search_done" /\ loc[t].empty_at_call /\ loc[t].top_k > 0

AskStates == {"ask_embed_await", "ask_gen_await", "ask_val_await", "ask_done"}

\* C7: ask_question with no document loaded returns at once status success,
\* the sentinel answer, no sources and no validation, and has made no
\* external call.
C7_AskWithoutDocuments ==
    \A t \in Tasks :
       (pc[t] \in AskStates /\ loc[t].empty_at_call)
       => /\ pc[t] = "ask_done"
          /\ loc[t].response = Success(Sentinel, <<>>)
          /\ calls[t] = <<>>

C7_Witness ==
    \E t \in Tasks :
       /\ pc[t] = "ask_done" /\ loc[t].empty_at_call
       /\ loc[t].response.answer = Sentinel

\* C8: when the Generator call for the answer raises, ask_question returns
\* status success, the error description as answer, and as sources the
\* retrieved chunks in the order of the search result.
C8_GeneratorFault ==
    \A t \in Tasks :
       (pc[t] = "ask_done" /\ loc[t].e = "GenerationServiceError")
       => /\ loc[t].response.status = "success"
          /\ loc[t].response.answer = ErrorGenerating
          /\ loc[t].results # <<>>
          /\ loc[t].response.sources = SourcesOf(loc[t].results)

C8_Witness ==
    \E t \in Tasks :
       /\ pc[t] = "ask_done" /\ loc[t].e = "GenerationServiceError"
       /\ Len(loc[t].response.sources) = 2

\* C9: validation is never a gate.  Once the answer was generated, the
\* response has status success, that answer and the retrieved sources,
\* whatever the validation produced.
C9_ValidationNeverGates ==
    \A t \in Tasks :
       (pc[t] = "ask_done" /\ loc[t].answer # "")
       => /\ loc[t].response.status = "success"
          /\ loc[t].response.answer = loc[t].answer
          /\ loc[t].response.sources = SourcesOf(loc[t].results)

\* an answer was returned although validation failed or judged it invalid
C9_Witness ==
    \E t \in Tasks :
       /\ pc[t] = "ask_done" /\ loc[t].answer # ""
       /\ loc[t].response.has_validation
       /\ loc[t].response.validation.validation_status = "invalid"

\* the decision table of the validation status, first matching row wins
DecisionRows(has_hallucinations, is_based_on_document, overall_score) ==
    << <<has_hallucinations, "INVALID">>,
       <<~is_based_on_document, "INVALID">>,
       <<overall_score >= 80, "VALID">>,
       <<overall_score >= 50, "PARTIALLY_VALID">>,
       <<overall_score >= 30, "UNCERTAIN">>,
       <<TRUE, "INVALID">> >>

FirstMatch(rows) ==
    rows[CHOOSE i \in 1..Len(rows) :
            rows[i][1] /\ \A j \in 1..(i - 1) : ~rows[j][1]][2]

\* C10: for every object parsed from the Generator's output, with each
\* boundary score and each combination of the two flags, the status of the
\* result is the first matching row of the decision table.
C10_StatusDecisionTable ==
    \A t \in Tasks :
       (pc[t] = "validate_done" /\ ~loc[t].validation_out.fault
          /\ Parse(loc[t].validation_out.text).ok)
       => LET obj == Parse(loc[t].validation_out.text).obj
          IN  loc[t].validation_result.status =
                 FirstMatch(DecisionRows(obj.has_hallucinations.b,
                                         obj.is_based_on_document.b,
                                         obj.overall_score.n))

\* a grounded answer without hallucinations scored exactly 0.3 is UNCERTAIN
C10_Witness ==
    \E t \in Tasks :
       /\ pc[t] = "validate_done" /\ ~loc[t].validation_out.fault
       /\ Parse(loc[t].validation_out.text).ok
       /\ LET obj == Parse(loc[t].validation_out.text).obj
          IN  /\ ~obj.has_hallucinations.b /\ obj.is_based_on_document.b
              /\ obj.overall_score.n = 30
       /\ loc[t].validation_result.status = "UNCERTAIN"

C12_ScoresInRange ==
    \A t \in Tasks :
       pc[t] = "validate_done"
       => /\ loc[t].validation_result.overall_score \in 0..100
          /\ loc[t].validation_result.confidence \in 0..100

\* the value of a field of obj, or the default when obj lacks it
FieldOr(obj, key, default) ==
    IF key \in DOMAIN obj THEN obj[key] ELSE default

\* C13: missing fields are defaulted.  For an object that lacks any subset
\* of the nine fields, the result has the present fields' values, false for
\* an absent boolean, 0 for an absent number, the empty list for an absent
\* list, the empty string for an absent feedback, and the status of the
\* decision table on these values.
C13_MissingFieldsDefaulted ==
    \A t \in Tasks :
       (pc[t] = "validate_done" /\ ~loc[t].validation_out.fault
          /\ Parse(loc[t].validation_out.text).ok
          /\ Parse(loc[t].validation_out.text).obj \in PartialObjects)
       => LET obj == Parse(loc[t].validation_out.text).obj
              r == loc[t].validation_result
              h == FieldOr(obj, "has_hallucinations", JBool(FALSE)).b
              b == FieldOr(obj, "is_based_on_document", JBool(FALSE)).b
              s == FieldOr(obj, "overall_score", JNum(0)).n
          IN  /\ r.has_hallucinations = h
              /\ r.is_based_on_document = b
              /\ r.overall_score = s
              /\ r.is_accurate = FieldOr(obj, "is_accurate", JBool(FALSE)).b
              /\ r.is_complete = FieldOr(obj, "is_complete", JBool(FALSE)).b
              /\ r.confidence = FieldOr(obj, "confidence", JNum(0)).n
              /\ r.issues = FieldOr(obj, "issues", <<>>)
              /\ r.suggestions = FieldOr(obj, "suggestions", <<>>)
              /\ r.feedback = FieldOr(obj, "feedback", "")
              /\ r.status = FirstMatch(DecisionRows(h, b, s))

\* an object with only the two grounding flags: score 0 gives INVALID, and
\* the lists are empty, which the failure result's are not
C13_Witness ==
    \E t \in Tasks :
       /\ pc[t] = "validate_done" /\ ~loc[t].validation_out.fault
       /\ Parse(loc[t].validation_out.text).ok
       /\ DOMAIN Parse(loc[t].validation_out.text).obj
             = {"is_based_on_document", "has_hallucinations"}
       /\ loc[t].validation_result.is_based_on_document
       /\ loc[t].validation_result.status = "INVALID"
       /\ loc[t].validation_result.suggestions = <<>>

\* C14: parsing fallback.  For a text that is a JSON object inside prose
\* without braces, and so is not JSON itself, the result is the one of the
\* object from the first "{" to the last "}".  The extraction is not tried
\* on a text that is JSON itself: a JSON list around an object gives the
\* failure result, not the result of the object.
C14_ParsingFallback ==
    \A t \in Tasks :
       (pc[t] = "validate_done" /\ ~loc[t].validation_out.fault)
       => \A obj \in ValidationObjects :
             /\ (loc[t].validation_out.text \in Wrappings(obj)
                   /\ ~IsJson(loc[t].validation_out.text))
                => /\ loc[t].validation_result.feedback = "fb"
                   /\ loc[t].validation_result = ResultOf(obj)
             /\ loc[t].validation_out.text = ListText(obj)
                => loc[t].validation_result.feedback = "Validation error"

\* an object with prose before and after it gave a VALID result
C14_Witness ==
    \E t \in Tasks :
       /\ pc[t] = "validate_done" /\ ~loc[t].validation_out.fault
       /\ Len(loc[t].validation_out.text) = 5
       /\ loc[t].validation_out.text[1].t = "prose"
       /\ loc[t].validation_out.text[5].t = "prose"
       /\ loc[t].validation_result.status = "VALID"

(***************************************************************************)
(* The chunker                                                             *)
(***************************************************************************)
\* the last n characters of s, n <= Len(s)
LastChars(s, n) == SubSeq(s, Len(s) - n + 1, Len(s))

IsPrefix(p, s) == Len(p) <= Len(s) /\ SubSeq(s, 1, Len(p)) = p

ChunkerStates(t) == pc[t] = "chunk_done"

\* C15: overlap prefix.  For consecutive chunks k, k+1 of one
\* chunk_document call, if the content of chunk k has at least overlap
\* characters, its last overlap characters are a prefix of the content of
\* chunk k+1.
C15_OverlapPrefix ==
    \A t \in Tasks :
       ChunkerStates(t)
       => LET out == loc[t].doc_chunks
              overlap == loc[t].chunker.overlap
          IN  \A k \in 1..(Len(out) - 1) :
                 Len(out[k].content) >= overlap
                 => IsPrefix(LastChars(out[k].content, overlap),
                             out[k + 1].content)

\* C16: chunk identifiers.  The chunks of one chunk_document call carry
\* the identifiers (stem, 0), (stem, 1), (stem, 2), ... in the order of the
\* returned list: distinct, increasing, without gaps.
C16_ChunkIds ==
    \A t \in Tasks :
       ChunkerStates(t)
       => LET out == loc[t].doc_chunks
          IN  /\ \A i \in 1..Len(out) :
                    out[i].chunk_id = <<Stem("a.txt"), i - 1>>
              /\ \A i, j \in 1..Len(out) :
                    i < j => /\ out[i].chunk_id # out[j].chunk_id
                             /\ out[i].chunk_id[2] < out[j].chunk_id[2]

C16_Witness ==
    \E t \in Tasks : ChunkerStates(t) /\ Len(loc[t].doc_chunks) >= 3

\* the paragraphs ps[1..j] joined by single newlines
RECURSIVE JoinAll(_, _)
JoinAll(ps, j) ==
    IF j = 0 THEN <<>>
    ELSE IF j = 1 THEN ps[1]
    ELSE JoinAll(ps, j - 1) \o <<"\n">> \o ps[j]

\* every append finds len(buffer) + len(paragraph) <= chunk_size
AllFit(ps, chunk_size) ==
    \A j \in 2..Len(ps) : Len(JoinAll(ps, j - 1)) + Len(ps[j]) <= chunk_size

\* C17: a document whose paragraphs all fit in one buffer, in particular a
\* document of two paragraphs shorter than chunk_size, gives exactly one
\* chunk, the paragraphs in order joined by single newlines; an empty or
\* whitespace-only text gives no chunk.
C17_OneChunkOrNone ==
    \A t \in Tasks :
       ChunkerStates(t)
       => LET out == loc[t].doc_chunks
              ps == _split_by_paragraphs(loc[t].content)
              chunk_size == loc[t].chunker.chunk_size
          IN  /\ (ps # <<>> /\ AllFit(ps, chunk_size))
                 => /\ Len(out) = 1
                    /\ out[1].content = JoinAll(ps, Len(ps))
              /\ (Len(ps) = 2 /\ Len(loc[t].content) < chunk_size)
                 => /\ Len(out) = 1
                    /\ out[1].content = ps[1] \o <<"\n">> \o ps[2]
              /\ (\A i \in 1..Len(loc[t].content) :
                     loc[t].content[i] \in Whitespace)
                 => out = <<>>

C17_Witness ==
    \E t \in Tasks :
       /\ ChunkerStates(t)
       /\ Len(_split_by_paragraphs(loc[t].content)) = 2
       /\ Len(loc[t].content) < loc[t].chunker.chunk_size
       /\ Len(loc[t].doc_chunks) = 1

(***************************************************************************)
(* load_document and get_status                                            *)
(***************************************************************************)
LoadStates(t, status) ==
    pc[t] = "load_done" /\ loc[t].load_response.status = status

\* C18: ingestion faults.  A load_document call that fails (missing path,
\* unsupported format, Embedder fault) answers status error with a message
\* and empty metadata, and no step of the call changes the chunk list or
\* the matrix, so get_status answers as before.
C18_IngestionFaults ==
    /\ [](\A t \in Tasks :
             /\ (pc[t] = "load_done"
                   /\ (\/ ~Exists(loc[t].file_path)
                       \/ Suffix_(loc[t].file_path) \notin supported_formats))
                => loc[t].load_response.status = "error"
             /\ LoadStates(t, "error")
                => /\ loc[t].load_response.message[1]
                         = "Failed to load document"
                   /\ loc[t].load_response.message[2] # ""
                   /\ loc[t].load_response.metadata.keys = {})
    /\ [][\A t \in Tasks :
             ((pc'[t] = "load_await" /\ pc[t] # "load_await")
                \/ (pc'[t] = "load_done" /\ pc[t] # "load_done"
                      /\ loc'[t].load_response.status = "error"))
             => /\ chunks' = chunks /\ embeddings' = embeddings
                /\ loaded_files(chunks') = loaded_files(chunks)]_vars

\* the Embedder has failed for a document with chunks while the store
\* holds chunks
C18_Witness ==
    \E t \in Tasks :
       /\ LoadStates(t, "error")
       /\ loc[t].load_response.message[2] = "Embedder"
       /\ loc[t].batch # <<>> /\ chunks # <<>>

\* the store without the embeddings
Bare(store) ==
    [i \in 1..Len(store) |-> [store[i] EXCEPT !.embedding = NoEmbedding]]

\* C19: success only after insertion.  When load_document answers status
\* success for a document with a paragraph, num_chunks is at least 1, the
\* num_chunks chunks of the document are the last of the store, each with
\* its embedding and its row of the matrix, and total_chunks_in_store is
\* the length of the store, also while another load_document is waiting.
C19_SuccessAfterInsertion ==
    \A t \in Tasks :
       (LoadStates(t, "success")
          /\ _split_by_paragraphs(FileText(loc[t].file_path)) # <<>>)
       => LET metadata == loc[t].load_response.metadata
              n == metadata.num_chunks
          IN  /\ n >= 1
              /\ n = Len(loc[t].batch) /\ n <= Len(chunks)
              /\ Bare(SubSeq(chunks, Len(chunks) - n + 1, Len(chunks)))
                    = loc[t].batch
              /\ \A i \in 1..Len(chunks) : chunks[i].embedding \in Vectors
              /\ MatrixOfList
              /\ metadata.total_chunks_in_store = Len(chunks)

\* a document of two chunks is loaded while the other task waits for the
\* Embedder and the store held a chunk before
C19_Witness ==
    \E t, u \in Tasks :
       /\ LoadStates(t, "success") /\ pc[u] = "load_await"
       /\ loc[t].load_response.metadata.num_chunks = 2
       /\ loc[t].load_response.metadata.total_chunks_in_store = 3

\* C20: get_status.  The response has status active, total_chunks is the
\* length of the store and the sum of num_chunks over the successful
\* load_document calls, loaded_documents lists each source file of the
\* stored chunks once; get_status issues no external call and changes
\* neither the store nor the sum.
C20_GetStatus ==
    /\ [](\A t \in Tasks :
             pc[t] = "status_done"
             => LET r == loc[t].status_response
                IN  /\ r.status = "active"
                    /\ r.total_chunks = Len(chunks)
                    /\ r.total_chunks = reported_chunks
                    /\ {r.loaded_documents[i] :
                           i \in 1..Len(r.loaded_documents)}
                          = {chunks[i].source_file : i \in 1..Len(chunks)}
                    /\ \A i, j \in 1..Len(r.loaded_documents) :
                          i # j
                          => r.loaded_documents[i] # r.loaded_documents[j]
                    /\ calls[t] = <<>>)
    /\ [][\A t \in Tasks :
             (pc'[t] = "status_done" /\ pc[t] # "status_done")
             => /\ chunks' = chunks /\ embeddings' = embeddings
                /\ reported_chunks' = reported_chunks]_vars

\* get_status on a store with three chunks of two files
C20_Witness ==
    \E t \in Tasks :
       /\ pc[t] = "status_done"
       /\ loc[t].status_response.total_chunks = 3
       /\ Len(loc[t].status_response.loaded_documents) = 2

(***************************************************************************)
(* handle_mcp_request                                                      *)
(***************************************************************************)
Operations == {"load_document", "ask_question", "get_status"}

\* requests with an unknown method or without the required parameter
BadRequests ==
    {request \in Requests :
        \/ request.method \notin Operations
        \/ request.method = "load_document" /\ Not(request.params.file_path)
        \/ request.method = "ask_question" /\ Not(request.params.question)}

\* the response is the dispatcher's error, no call was issued, no file was
\* loaded and the store is as before
DispatchError(t, error) ==
    /\ pc'[t] = "mcp_done"
    /\ loc'[t].mcp_response.error = error
    /\ calls'[t] = <<>>
    /\ loc'[t].file_path = "" /\ loc'[t].content = <<>>
    /\ chunks' = chunks /\ embeddings' = embeddings

\* C21: dispatch errors.  A request whose method is none of load_document,
\* ask_question and get_status is answered {error: "Unknown method: <name>"};
\* load_document without file_path and ask_question without question are
\* answered {error: "<param> parameter is required"}; in each case no
\* loader, Embedder or Generator call is made and the store is unchanged.
C21_DispatchErrors ==
    [][\A t \in Tasks :
          (pc[t] = "idle" /\ pc'[t] # "idle")
          => \A request \in BadRequests :
                handle_mcp_request(t, request)
                => /\ request.method \notin Operations
                      => DispatchError(t, <<"Unknown method",
                                            request.method>>)
                   /\ (request.method = "load_document"
                         /\ Not(request.params.file_path))
                      => DispatchError(t, <<"file_path",
                                            "parameter is required">>)
                   /\ (request.method = "ask_question"
                         /\ Not(request.params.question))
                      => DispatchError(t, <<"question",
                                            "parameter is required">>)]_vars

\* an unknown method was refused while the store holds chunks
C21_Witness ==
    \E t \in Tasks :
       /\ pc[t] = "mcp_done"
       /\ loc[t].mcp_response.error = <<"Unknown method", "clear">>
       /\ chunks # <<>>

(***************************************************************************)
(* The chunker, its buffer and its offsets                                 *)
(***************************************************************************)
\* the state of the loop of chunk_document after the first k paragraphs
LoopAfter(self, paragraphs, k) ==
    Loop(self, LoopStart, SubSeq(paragraphs, 1, k), 1, "a.txt")

\* the last overlap characters of the closed buffer, the whole buffer when
\* it is shorter
Seed(closed, overlap) ==
    IF Len(closed) < overlap THEN closed ELSE LastChars(closed, overlap)

\* C22: seed rule.  Whenever chunk_document closes a buffer, the next
\* buffer is the last overlap characters of the closed buffer (the whole
\* closed buffer only when it is shorter than overlap), a newline and the
\* pending paragraph; with overlap 0 nothing of the closed buffer is
\* carried over.
C22_SeedRule ==
    \A t \in Tasks :
       ChunkerStates(t)
       => LET self == loc[t].chunker
              paragraphs == _split_by_paragraphs(loc[t].content)
          IN  \A k \in 1..Len(paragraphs) :
                 LET before == LoopAfter(self, paragraphs, k - 1)
                     after == LoopAfter(self, paragraphs, k)
                 IN  Len(after.chunks) > Len(before.chunks)
                     => after.current_chunk
                           = Seed(before.current_chunk, self.overlap)
                               \o <<"\n">> \o paragraphs[k]

CallOrder == <<"embed", "generate_answer", "generate_validation">>

\* C24: call ordering in ask_question.  The calls issued by one
\* ask_question are a prefix of: Embedder, answer generation, validation.
\* The validation call is issued only when the answer generation has
\* returned an answer, never when the search result is empty or the answer
\* generation failed.
C24_CallOrdering ==
    \A t \in Tasks :
       pc[t] \in AskStates
       => /\ IsPrefix(calls[t], CallOrder)
          /\ (\E i \in 1..Len(calls[t]) : calls[t][i] = "generate_validation")
             => /\ loc[t].answer \in Answers
                /\ loc[t].results # <<>>
                /\ loc[t].e # "GenerationServiceError"
          /\ (loc[t].results = <<>> \/ loc[t].e = "GenerationServiceError")
             => Len(calls[t]) <= 2
          /\ (pc[t] = "ask_done" /\ loc[t].results = <<>>)
             => Len(calls[t]) <= 1

\* an ask_question has returned after its three calls
C24_Witness ==
    \E t \in Tasks : pc[t] = "ask_done" /\ calls[t] = CallOrder

(***************************************************************************)
(* SimpleDocumentQA                                                        *)
(***************************************************************************)
\* C25: SimpleDocumentQA.load_document reports after the insertion.  When
\* it answers status success with total_chunks = N, the store holds N
\* chunks, each with its embedding and its row of the matrix, and no
\* insertion of the document is still waiting for the Embedder.
C25_SimpleLoadAwaitsInsertion ==
    \A t \in Tasks :
       (pc[t] = "simple_load_done"
          /\ loc[t].simple_response.status = "success")
       => /\ Len(chunks) = loc[t].simple_response.total_chunks
          /\ chunks # <<>> => MatrixOfList
          /\ background = <<>>

\* the decision table applied to the fields of a result
TableOf(result) ==
    FirstMatch(DecisionRows(result.has_hallucinations,
                            result.is_based_on_document,
                            result.overall_score))

C27_UniqueChunkIds ==
    \A i, j \in 1..Len(chunks) :
       i # j => chunks[i].chunk_id # chunks[j].chunk_id

\* C28: segment offsets advance through the document.  For consecutive
\* segments k, k+1 of one chunk_document call where the seed is shorter than
\* the closed buffer, start_char(k+1) > start_char(k); and every segment has
\* 0 <= start_char <= end_char <= length of the original text.
C28_OffsetsAdvance ==
    \A t \in Tasks :
       ChunkerStates(t)
       => LET self == loc[t].chunker
              paragraphs == _split_by_paragraphs(loc[t].content)
              result == loc[t].doc_chunks
          IN  /\ \A k \in 1..Len(paragraphs) :
                    LET before == LoopAfter(self, paragraphs, k - 1)
                        after == LoopAfter(self, paragraphs, k)
                        m == Len(after.chunks)
                    IN  (/\ m > Len(before.chunks)
                         /\ Len(Seed(before.current_chunk, self.overlap))
                               < Len(before.current_chunk)
                         /\ m + 1 <= Len(result))
                        => result[m + 1].start_char > result[m].start_char
              /\ \A i \in 1..Len(result) :
                    /\ 0 <= result[i].start_char
                    /\ result[i].start_char <= result[i].end_char
                    /\ result[i].end_char <= Len(loc[t].content)

(***************************************************************************)
(* search_similar across clear                                             *)
(***************************************************************************)
\* C29: a search_similar call suspended on its Embedder call completes
\* without a fault when the Embedder returns, whatever ran meanwhile, clear
\* included; when the store was cleared meanwhile it returns the empty
\* sequence.
C29_SearchAcrossClear ==
    [][\A t \in Tasks :
          (pc[t] = "search_await" /\ pc'[t] # "search_await")
          => \A qe \in Vectors :
                search_similar_resume(t, qe)
                => /\ pc'[t] = "search_done"
                   /\ (chunks = <<>> => loc'[t].results = <<>>)]_vars

(***************************************************************************)
(* handle_mcp_request always answers                                       *)
(***************************************************************************)
\* the response handle_mcp_request returns: its status field and its error
\* field, empty when the response has no such field
McpResponse(t) ==
    CASE pc[t] = "load_done" ->
            [status |-> loc[t].load_response.status, error |-> <<>>]
      [] pc[t] = "ask_done" ->
            [status |-> loc[t].response.status, error |-> <<>>]
      [] pc[t] = "status_done" ->
            [status |-> loc[t].status_response.status, error |-> <<>>]
      [] pc[t] = "mcp_done" ->
            [status |-> "", error |-> loc[t].mcp_response.error]
      [] OTHER -> [status |-> "", error |-> <<>>]

\* where an exception has left the operation
Raised == {"add_raised", "search_raised"}

\* C30: handle_mcp_request never raises and always terminates with a
\* response.  For every method, params mapping, store state and outcome of
\* the loader, Embedder and Generator calls, a started request ends, and it
\* ends with a response that has a status field (success, error or active)
\* or an error field, provided each external call returns or fails.
C30_AlwaysResponds ==
    /\ [](\A t \in Tasks :
            /\ pc[t] \notin Raised
            /\ pc[t] \in Finished
                  => \/ McpResponse(t).status \in {"success", "error", "active"}
                     \/ McpResponse(t).error # <<>>)
    /\ \A t \in Tasks : (pc[t] # "idle") ~> (pc[t] \in Finished)

\* a question over a filled store whose Embedder call raised is answered
\* with status error
C30_Witness ==
    \E t \in Tasks :
       /\ pc[t] = "ask_done"
       /\ loc[t].response.status = "error"
       /\ loc[t].e = "EmbeddingServiceError"
       /\ chunks # <<>>

====
